---------------------------- MODULE Spec2Model ----------------------------
(***************************************************************************)
(* Model of the TDX bridge plugin (src/tdx_bridge/main.cpp): RoxSignal,    *)
(* the formula callback the host invokes, and CallRoxServer, the WinHTTP   *)
(* exchange it makes with the local scoring service.                       *)
(*                                                                         *)
(* A float is modelled as an exact decimal [m, e] standing for m / 10^e,   *)
(* normalised so that equal numbers are equal records.  Text is a sequence *)
(* of one-character strings.                                               *)
(***************************************************************************)
EXTENDS Integers, Sequences, FiniteSets, TLC

\* ---------------------------------------------------------------- bounds
\* Longest series the host passes (DataLen ranges over -1..MaxLen).
MaxLen == 2
\* Size of the first chunk of a response body that WinHttpQueryDataAvailable
\* may report when the body has not arrived whole.
FirstChunk == 1
\* The wall clock saturates here.
MaxTime == 3
\* How many ticks WinHTTP lets WinHttpReceiveResponse wait before it gives up
\* by itself (its default receive timeout; the code sets none).
MaxWait == 3

\* ------------------------------------------------------ program constants
\* char buffer[64]; the guard is dwSize < 63.
BufferGuard == 63

\* ------------------------------------------------------------- decimals
RECURSIVE Pow10(_)
Pow10(k) == IF k = 0 THEN 1 ELSE 10 * Pow10(k - 1)

RECURSIVE Norm(_, _)
Norm(m, e) ==
  IF e > 0 /\ m % 10 = 0 THEN Norm(m \div 10, e - 1) ELSE [m |-> m, e |-> e]

Dec(m, e) == Norm(m, e)

\* 0.0f
Zero == [m |-> 0, e |-> 0]

Abs(x) == IF x < 0 THEN -x ELSE x

\* ----------------------------------------------------------------- text
DigitChars == <<"0", "1", "2", "3", "4", "5", "6", "7", "8", "9">>

IsDigit(c) == \E d \in 1..10 : DigitChars[d] = c

DigitVal(c) == (CHOOSE d \in 1..10 : DigitChars[d] = c) - 1

IsSpace(c) == c \in {" ", "\n", "\t", "\r"}

RECURSIVE Digits(_)
Digits(n) ==
  IF n < 10 THEN <<DigitChars[n + 1]>>
  ELSE Digits(n \div 10) \o <<DigitChars[(n % 10) + 1]>>

\* The value rounded to hundredths, as a number of hundredths (what "%.2f"
\* prints; the inputs enumerated below hold no exact tie).
Cents(x) ==
  IF x.e <= 2 THEN x.m * Pow10(2 - x.e)
  ELSE LET d == Pow10(x.e - 2)
           q == (Abs(x.m) + (d \div 2)) \div d
       IN  IF x.m < 0 THEN -q ELSE q

\* printf's "%.2f".
Fmt2(x) ==
  LET c == Cents(x)
      a == Abs(c)
  IN  (IF c < 0 THEN <<"-">> ELSE <<>>)
        \o Digits(a \div 100) \o <<".">>
        \o <<DigitChars[((a \div 10) % 10) + 1], DigitChars[(a % 10) + 1]>>

\* sprintf_s(payload, "{\"code\":\"%s\", \"price\":%.2f, \"vol\":%.2f}", ...):
\* the three fields of the JSON body as they are printed.
Payload(stockCode, price, vol) ==
  [code |-> stockCode, price |-> Fmt2(price), vol |-> Fmt2(vol)]

RECURSIVE SkipSpace(_, _)
SkipSpace(s, k) ==
  IF k <= Len(s) /\ IsSpace(s[k]) THEN SkipSpace(s, k + 1) ELSE k

\* Scans the digits of s from position k: [pos, val, cnt] where pos is the
\* first position not scanned, val the number read on top of acc and cnt the
\* number of digits read.
RECURSIVE ScanDigits(_, _, _, _)
ScanDigits(s, k, acc, cnt) ==
  IF k <= Len(s) /\ IsDigit(s[k])
  THEN ScanDigits(s, k + 1, 10 * acc + DigitVal(s[k]), cnt + 1)
  ELSE [pos |-> k, val |-> acc, cnt |-> cnt]

\* Scans the fraction digits of s from position k on top of the mantissa acc
\* with cnt fraction digits: [pos, val, cnt, seen], seen the number of digits
\* scanned.  Zeros are held back (zeros of them) until a later digit makes
\* them count, so that trailing zeros never enter the mantissa.
RECURSIVE ScanFraction(_, _, _, _, _, _)
ScanFraction(s, k, acc, cnt, zeros, seen) ==
  IF k <= Len(s) /\ IsDigit(s[k])
  THEN IF s[k] = "0"
       THEN ScanFraction(s, k + 1, acc, cnt, zeros + 1, seen + 1)
       ELSE ScanFraction(s, k + 1,
                         acc * Pow10(zeros + 1) + DigitVal(s[k]),
                         cnt + zeros + 1, 0, seen + 1)
  ELSE [pos |-> k, val |-> acc, cnt |-> cnt, seen |-> seen]

\* The C library's strtod on a decimal literal: leading white space, an
\* optional sign, digits, an optional point and digits; it stops at the
\* first character that cannot continue the number.  [val, end]: the value
\* (0.0 when no number starts the text) and the position after the last
\* character used.  The texts enumerated below hold no exponent, hex, inf
\* or nan form.
Strtod(s) ==
  LET k0   == SkipSpace(s, 1)
      neg  == k0 <= Len(s) /\ s[k0] = "-"
      k1   == IF k0 <= Len(s) /\ s[k0] \in {"-", "+"} THEN k0 + 1 ELSE k0
      ip   == ScanDigits(s, k1, 0, 0)
      dot  == ip.pos <= Len(s) /\ s[ip.pos] = "."
      fp   == IF dot THEN ScanFraction(s, ip.pos + 1, ip.val, 0, 0, 0)
              ELSE [pos |-> ip.pos, val |-> ip.val, cnt |-> 0, seen |-> 0]
      some == ip.cnt + fp.seen > 0
  IN  IF some
      THEN [val |-> Dec(IF neg THEN -fp.val ELSE fp.val, fp.cnt), end |-> fp.pos]
      ELSE [val |-> Zero, end |-> 1]

\* (float)atof(buffer)
atof(s) == Strtod(s).val

Prefix(s, k) == SubSeq(s, 1, k)

\* ------------------------------------------------- the host and the service
\* The host's evaluation threads (spec section 5: one dedicated thread, or
\* several concurrent ones).
Threads == {"T1", "T2"}

\* What the host passes as DataLen.
DataLens == -1..MaxLen

\* 10.004 (printed as 10.00) and 12.50
Prices == {Dec(10004, 3), Dec(1250, 2)}

\* 500.00
Vols == {Dec(50000, 2)}

\* What the host's output buffer holds on entry: the value an earlier
\* evaluation left there (7.77), never written by this invocation.
Stale == Dec(777, 2)

\* The host's buffers hold one element more than the longest series.
HostCap == MaxLen + 1

Slots == 0..(HostCap - 1)

\* The series the host passes in pfINa (the third input is unused by the
\* formula TDXDLL1(1, CLOSE, VOL, 0)).
Series(n, vals) == {a \in [Slots -> vals \cup {Zero}] :
                      \A k \in Slots : (k >= n) <=> (a[k] = Zero)}

\* A body of BufferGuard bytes that is one number: "1.000...0".
LongBody == <<"1", ".">> \o [k \in 1..(BufferGuard - 2) |-> "0"]

\* A body of BufferGuard - 1 bytes that is one number: "1.000...0".
FitBody == <<"1", ".">> \o [k \in 1..(BufferGuard - 3) |-> "0"]

Response(status, body) == [status |-> status, body |-> body]

\* What the scoring service answers with: 200 with "1.00", "0.00", "12.5",
\* a body that is no number, an empty body, the long body or the body one
\* byte shorter; 500 with a body that is no number or with one that is.
Responses == { Response(200, <<"1", ".", "0", "0">>),
               Response(200, <<"0", ".", "0", "0">>),
               Response(200, <<"1", "2", ".", "5">>),
               Response(200, <<"e", "r", "r">>),
               Response(200, <<>>),
               Response(200, LongBody),
               Response(200, FitBody),
               Response(500, <<"e", "r", "r">>),
               Response(500, <<"1", ".", "0", "0">>) }

\* The answers of a service that is up and well: "1.00" or "0.00".
Signals == { Response(200, <<"1", ".", "0", "0">>),
             Response(200, <<"0", ".", "0", "0">>) }

\* The configuration the spec names (section 6): how long a cached signal
\* and a cached failure stay valid, in clock ticks.
cacheTtlMs == 2

failureCooldownMs == 1

\* The time budget of one exchange the spec names (section 6), in ticks.
requestTimeoutMs == 1

\* The byte counts WinHttpQueryDataAvailable may report for a response whose
\* body is b: all of it, or the first chunk when it arrives in pieces; 0 for
\* an empty body.
AvailSizes(b) ==
  IF Len(b) = 0 THEN {0}
  ELSE {Len(b)} \cup {c \in {FirstChunk} : c < Len(b)}

\* Whether the whole of b is one decimal number.
WellFormed(b) == Len(b) > 0 /\ ~IsSpace(b[1]) /\ Strtod(b).end = Len(b) + 1

\* ---------------------------------------------------------------- state
\* HINTERNET h = NULL
NULL == [kind |-> "null", owner |-> "none"]

\* Handle with the handles kept in statics that every thread shares.
SharedHandle(kind, t) == [kind |-> kind, owner |-> "T1"]

\* An HINTERNET value: WinHTTP hands out a value no open handle has; a thread
\* holds at most one open handle of each kind, so the two name it.
Handle(kind, t) == [kind |-> kind, owner |-> t]

NoResponse == [status |-> 0, body |-> <<>>]

NoPayload == [code |-> "", price |-> <<>>, vol |-> <<>>]

VARIABLES
  frame,     \* per thread: the locals of RoxSignal and CallRoxServer, and
             \* the record of what this invocation did
  handles,   \* the WinHTTP handles of the process that are open
  prev,      \* the last invocation the host took the output of
  clock,     \* wall-clock ticks since then (saturating)
  g_Funcs,   \* static PluginFuncInfo g_Funcs[]
  registered \* what the last RegisterTdxFunc gave the host: [ret, pFun]

vars == <<frame, handles, prev, clock, g_Funcs, registered>>

\* PluginFuncInfo { nFuncMark, nCallType, pCallFunc }
PluginFuncInfo(mark, type, func) ==
  [nFuncMark |-> mark, nCallType |-> type, pCallFunc |-> func]

\* FuncTable without its terminator entry.
FuncTableUnterminated == <<PluginFuncInfo(1, 0, "RoxSignal")>>

\* static PluginFuncInfo g_Funcs[] = { { 1, 0, RoxSignal }, { 0, 0, NULL } };
FuncTable ==
  <<PluginFuncInfo(1, 0, "RoxSignal"), PluginFuncInfo(0, 0, "NULL")>>

\* The host has not called RegisterTdxFunc yet.
NotRegistered == [ret |-> FALSE, pFun |-> "unset"]

\* A thread outside RoxSignal.
IdleFrame ==
  [pc |-> "idle",
   \* RoxSignal
   DataLen |-> 0, pfOUT |-> [k \in Slots |-> Stale],
   pfINa |-> [k \in Slots |-> Zero], pfINb |-> [k \in Slots |-> Zero],
   pfINc |-> [k \in Slots |-> Zero],
   i |-> 0, lastPrice |-> Zero, lastVol |-> Zero, signal |-> Zero,
   \* CallRoxServer
   result |-> Zero, hSession |-> NULL, hConnect |-> NULL, hRequest |-> NULL,
   payload |-> NoPayload, dwSize |-> 0, dwDownloaded |-> 0, buffer |-> <<>>,
   \* the exchange as the service saw it
   response |-> NoResponse,
   \* the record of this invocation
   failed |-> "none",  \* the WinHTTP step that failed
   writes |-> {},      \* the output slots written
   reads |-> {},       \* the input elements read: <<array, index>>
   sent |-> <<>>,      \* the payloads sent
   opens |-> 0,        \* the sessions opened
   opened |-> <<>>,    \* the handles opened
   closes |-> <<>>,    \* the handles closed
   dataRead |-> 0,     \* the calls of WinHttpReadData
   waited |-> 0,       \* the ticks spent waiting in WinHttpReceiveResponse
   age |-> 0]          \* the clock on entry

NoPrev == [made |-> FALSE, called |-> FALSE, lastPrice |-> Zero,
           lastVol |-> Zero, failed |-> "none", status |-> 0,
           sends |-> 0, opens |-> 0]

Init ==
  /\ frame = [t \in Threads |-> IdleFrame]
  /\ handles = {}
  /\ prev = NoPrev
  /\ clock = 0
  /\ g_Funcs = FuncTable
  /\ registered = NotRegistered

\* ------------------------------------------------------------- handles
\* WinHttpCloseHandle on each handle of hs.
CloseHandles(hs) == handles \ hs

\* ------------------------------------------------------------- buffers
\* a[k]; an index outside the buffer reads whatever memory lies there.
At(a, k) == IF k \in DOMAIN a THEN a[k] ELSE Stale

\* a[k] = v; a write outside the buffer leaves the buffer itself as it was.
Put(a, k, v) == IF k \in DOMAIN a THEN [a EXCEPT ![k] = v] ELSE a

\* ---------------------------------------------------------- RoxSignal
\* What an invocation leaves behind when it returns to the host.
Returned(f) ==
  [made |-> TRUE, called |-> f.DataLen > 0, lastPrice |-> f.lastPrice,
   lastVol |-> f.lastVol, failed |-> f.failed, status |-> f.response.status,
   sends |-> Len(f.sent), opens |-> f.opens]

\* TDX_PLUGIN_API BOOL RegisterTdxFunc(PluginFuncInfo** pFun):
\* *pFun = g_Funcs; return TRUE;
RegisterTdxFunc ==
  /\ registered' = [ret |-> TRUE, pFun |-> "g_Funcs"]
  /\ UNCHANGED <<frame, handles, prev, clock, g_Funcs>>

\* The host calls RoxSignal(DataLen, pfOUT, pfINa, pfINb, pfINc) through the
\* pointer the registered table gave it.
RoxSignal(t, n, a, b) ==
  /\ frame[t].pc = "idle"
  /\ registered.ret
  /\ \E k \in 1..Len(g_Funcs) : g_Funcs[k].pCallFunc = "RoxSignal"
  /\ frame' = [frame EXCEPT ![t] =
       [IdleFrame EXCEPT !.pc = "init", !.DataLen = n, !.pfINa = a,
                         !.pfINb = b, !.i = 0, !.age = clock]]
  /\ UNCHANGED <<handles, prev, clock, g_Funcs, registered>>

\* LoopGoesOn with the bound off by one: the loop stops one slot short.
LoopStopsShort(k, n) == k < n - 1

\* for(int i=0; i<DataLen; i++): whether the loop goes round once more.
LoopGoesOn(k, n) == k < n

\* for(int i=0; i<DataLen; i++) pfOUT[i] = 0.0f;
InitOutput(t) ==
  LET f == frame[t] IN
  /\ f.pc = "init"
  /\ IF LoopGoesOn(f.i, f.DataLen)
     THEN frame' = [frame EXCEPT ![t] =
            [f EXCEPT !.pfOUT = Put(f.pfOUT, f.i, Zero),
                      !.writes = @ \cup {f.i}, !.i = f.i + 1]]
     ELSE frame' = [frame EXCEPT ![t] = [f EXCEPT !.pc = "if"]]
  /\ UNCHANGED <<handles, prev, clock, g_Funcs, registered>>

\* HasLastBar as if (DataLen): only an empty series holds no last bar.
HasLastBarNonZero(n) == n # 0

\* HasLastBar with >= for >: an empty series is taken to hold a last bar.
HasLastBarOrNone(n) == n >= 0

\* if (DataLen > 0)
HasLastBar(n) == n > 0

\* LastIndex one too far: the element past the series.
PastTheEnd(n) == n

\* pfINa[DataLen-1], pfINb[DataLen-1]: the index of the last bar.
LastIndex(n) == n - 1

\* if (DataLen > 0) { lastPrice = pfINa[DataLen-1]; lastVol = pfINb[DataLen-1];
\* and the entry of CallRoxServer("UNKNOWN", lastPrice, lastVol).
LastBar(t) ==
  LET f == frame[t] IN
  /\ f.pc = "if"
  /\ HasLastBar(f.DataLen)
  /\ frame' = [frame EXCEPT ![t] =
       [f EXCEPT !.pc = "open",
                 !.lastPrice = At(f.pfINa, LastIndex(f.DataLen)),
                 !.lastVol = At(f.pfINb, LastIndex(f.DataLen)),
                 !.reads = @ \cup {<<"pfINa", LastIndex(f.DataLen)>>,
                                   <<"pfINb", LastIndex(f.DataLen)>>},
                 !.result = Zero, !.hSession = NULL, !.hConnect = NULL,
                 !.hRequest = NULL]]
  /\ UNCHANGED <<handles, prev, clock, g_Funcs, registered>>

\* DataLen <= 0: RoxSignal returns without calling the server.
NoBar(t) ==
  LET f == frame[t] IN
  /\ f.pc = "if"
  /\ ~HasLastBar(f.DataLen)
  /\ frame' = [frame EXCEPT ![t] = [f EXCEPT !.pc = "done"]]
  /\ UNCHANGED <<handles, prev, clock, g_Funcs, registered>>

\* StoreIndex one too far: the slot past the series.
StorePastTheEnd(n) == n

\* pfOUT[DataLen-1]: the slot the signal goes to.
StoreIndex(n) == n - 1

\* pfOUT[DataLen-1] = signal; and the return to the host.
StoreSignal(t) ==
  LET f == frame[t] IN
  /\ f.pc = "store"
  /\ frame' = [frame EXCEPT ![t] =
       [f EXCEPT !.pc = "done",
                 !.pfOUT = Put(f.pfOUT, StoreIndex(f.DataLen), f.signal),
                 !.writes = @ \cup {StoreIndex(f.DataLen)}]]
  /\ UNCHANGED <<handles, prev, clock, g_Funcs, registered>>

\* RoxSignal has returned and the host takes the output; the thread may
\* evaluate again ("TDX calls this for every refresh").
HostRefresh(t) ==
  /\ frame[t].pc = "done"
  /\ frame' = [frame EXCEPT ![t] = IdleFrame]
  /\ prev' = Returned(frame[t])
  /\ clock' = 0
  /\ UNCHANGED <<handles, g_Funcs, registered>>

\* ------------------------------------------------------- CallRoxServer
\* The locals of CallRoxServer are dead once it has returned.
Leave(f, value) ==
  [f EXCEPT !.pc = "store", !.signal = value,
            !.result = Zero, !.hSession = NULL, !.hConnect = NULL,
            !.hRequest = NULL, !.payload = NoPayload, !.dwDownloaded = 0,
            !.buffer = <<>>]

\* hSession = WinHttpOpen(...); if (!hSession) return 0.0f;
WinHttpOpen(t, ok) ==
  LET f == frame[t] IN
  /\ f.pc = "open"
  /\ IF ok
     THEN /\ frame' = [frame EXCEPT ![t] =
                [f EXCEPT !.pc = "connect", !.hSession = Handle("session", t),
                          !.opens = @ + 1,
                          !.opened = Append(@, Handle("session", t))]]
          /\ handles' = handles \cup {Handle("session", t)}
     ELSE /\ frame' = [frame EXCEPT ![t] =
                Leave([f EXCEPT !.failed = "session"], Zero)]
          /\ UNCHANGED handles
  /\ UNCHANGED <<prev, clock, g_Funcs, registered>>

\* hConnect = WinHttpConnect(hSession, L"127.0.0.1", 8000, 0);
\* if (!hConnect) { WinHttpCloseHandle(hSession); return 0.0f; }
WinHttpConnect(t, ok) ==
  LET f == frame[t] IN
  /\ f.pc = "connect"
  /\ IF ok
     THEN /\ frame' = [frame EXCEPT ![t] =
                [f EXCEPT !.pc = "openreq", !.hConnect = Handle("connect", t),
                          !.opened = Append(@, Handle("connect", t))]]
          /\ handles' = handles \cup {Handle("connect", t)}
     ELSE /\ frame' = [frame EXCEPT ![t] =
                Leave([f EXCEPT !.failed = "connect",
                                !.closes = Append(@, f.hSession)], Zero)]
          /\ handles' = CloseHandles({f.hSession})
  /\ UNCHANGED <<prev, clock, g_Funcs, registered>>

\* hRequest = WinHttpOpenRequest(hConnect, L"POST", L"/api/tdx/calculate", ...);
\* if (hRequest) { ... }
WinHttpOpenRequest(t, ok) ==
  LET f == frame[t] IN
  /\ f.pc = "openreq"
  /\ IF ok
     THEN /\ frame' = [frame EXCEPT ![t] =
                [f EXCEPT !.pc = "send", !.hRequest = Handle("request", t),
                          !.opened = Append(@, Handle("request", t))]]
          /\ handles' = handles \cup {Handle("request", t)}
     ELSE /\ frame' = [frame EXCEPT ![t] =
                [f EXCEPT !.pc = "cleanup", !.failed = "request"]]
          /\ UNCHANGED handles
  /\ UNCHANGED <<prev, clock, g_Funcs, registered>>

\* sprintf_s(payload, ...); if (WinHttpSendRequest(hRequest, header, -1,
\* payload, strlen(payload), strlen(payload), 0)) { ... }
WinHttpSendRequest(t, ok) ==
  LET f == frame[t]
      p == Payload("UNKNOWN", f.lastPrice, f.lastVol)
  IN
  /\ f.pc = "send"
  /\ IF ok
     THEN frame' = [frame EXCEPT ![t] =
            [f EXCEPT !.pc = "receive", !.payload = p,
                      !.sent = Append(@, p)]]
     ELSE frame' = [frame EXCEPT ![t] =
            [f EXCEPT !.pc = "cleanup", !.payload = p, !.failed = "send"]]
  /\ UNCHANGED <<handles, prev, clock, g_Funcs, registered>>

\* WinHttpReceiveResponse(hRequest, NULL) blocks while the service has not
\* answered: no WinHttpSetTimeouts precedes it, so only WinHTTP's own receive
\* timeout ends the wait.
Blocked(t) ==
  LET f == frame[t] IN
  /\ f.pc = "receive"
  /\ f.waited < MaxWait
  /\ frame' = [frame EXCEPT ![t] = [f EXCEPT !.waited = @ + 1]]
  /\ UNCHANGED <<handles, prev, clock, g_Funcs, registered>>

\* WinHttpReceiveResponse(hRequest, NULL); its result is not looked at.  The
\* service answers with a status and a body, or the call fails (the service
\* went away, or WinHTTP's own receive timeout ran out).
WinHttpReceiveResponse(t, ok, resp) ==
  LET f == frame[t] IN
  /\ f.pc = "receive"
  /\ IF ok
     THEN frame' = [frame EXCEPT ![t] =
            [f EXCEPT !.pc = "query", !.response = resp, !.waited = 0]]
     ELSE frame' = [frame EXCEPT ![t] =
            [f EXCEPT !.pc = "query", !.failed = "receive", !.waited = 0]]
  /\ UNCHANGED <<handles, prev, clock, g_Funcs, registered>>

\* Readable with <= for <: a body that fills the guard is read too.
ReadableUpToGuard(dwSize) == dwSize > 0 /\ dwSize <= BufferGuard

\* if (dwSize > 0 && dwSize < 63)
Readable(dwSize) == dwSize > 0 /\ dwSize < BufferGuard

\* DWORD dwSize = 0; WinHttpQueryDataAvailable(hRequest, &dwSize);
\* if (dwSize > 0 && dwSize < 63) { ... }.  Without a response the call
\* fails and dwSize keeps its 0.
WinHttpQueryDataAvailable(t, ok, avail) ==
  LET f    == frame[t]
      size == IF ok /\ f.failed = "none" THEN avail ELSE 0
      why  == IF f.failed # "none" THEN f.failed
              ELSE IF size = 0 THEN "nodata"
              ELSE IF ~Readable(size) THEN "oversize"
              ELSE "none"
  IN
  /\ f.pc = "query"
  /\ avail \in AvailSizes(f.response.body)
  /\ frame' = [frame EXCEPT ![t] =
       [f EXCEPT !.pc = IF Readable(size) THEN "read" ELSE "cleanup",
                 !.dwSize = size, !.failed = why]]
  /\ UNCHANGED <<handles, prev, clock, g_Funcs, registered>>

\* Downloaded without the initial 0: the buffer is ended at dwSize whether
\* or not the read worked.
DownloadedAssumed(ok, dwSize) == dwSize

\* DWORD dwDownloaded = 0; WinHttpReadData(hRequest, buffer, dwSize,
\* &dwDownloaded): the bytes read, none when the read fails.
Downloaded(ok, dwSize) == IF ok THEN dwSize ELSE 0

\* WinHttpReadData(...); buffer[dwDownloaded] = '\0';
\* result = (float)atof(buffer);
WinHttpReadData(t, ok) ==
  LET f   == frame[t]
      got == Downloaded(ok, f.dwSize)
      buf == Prefix(f.response.body, got)
  IN
  /\ f.pc = "read"
  /\ frame' = [frame EXCEPT ![t] =
       [f EXCEPT !.pc = "cleanup", !.dwDownloaded = got, !.buffer = buf,
                 !.result = atof(buf), !.dataRead = @ + 1,
                 !.failed = IF ok THEN "none" ELSE "read"]]
  /\ UNCHANGED <<handles, prev, clock, g_Funcs, registered>>

\* Opened without the test: WinHttpCloseHandle is called on NULL too.
OpenedOrNull(hs) == hs

\* The handles among hs that are not NULL.
Opened(hs) == {h \in hs : h # NULL}

\* if (hRequest) WinHttpCloseHandle(hRequest); if (hConnect) ...;
\* if (hSession) ...; return result;
Cleanup(t) ==
  LET f  == frame[t]
      hs == <<f.hRequest, f.hConnect, f.hSession>>
      op == Opened({f.hRequest, f.hConnect, f.hSession})
      cl == SelectSeq(hs, LAMBDA h : h \in op)
  IN
  /\ f.pc = "cleanup"
  /\ frame' = [frame EXCEPT ![t] =
       Leave([f EXCEPT !.closes = @ \o cl], f.result)]
  /\ handles' = CloseHandles(op)
  /\ UNCHANGED <<prev, clock, g_Funcs, registered>>

\* ------------------------------------------------------------ the clock
\* A tick of the wall clock while the host waits between two refreshes.
Tick ==
  /\ \A t \in Threads : frame[t].pc = "idle"
  /\ clock < MaxTime
  /\ clock' = clock + 1
  /\ UNCHANGED <<frame, handles, prev, g_Funcs, registered>>

\* ------------------------------------------------------- specifications
\* One step of the host thread t, the host passing a DataLen of lens and the
\* scoring service answering with one of resps.
Step(t, lens, resps) ==
  \/ \E n \in lens : \E a \in Series(n, Prices) : \E b \in Series(n, Vols) :
       RoxSignal(t, n, a, b)
  \/ InitOutput(t)
  \/ LastBar(t)
  \/ NoBar(t)
  \/ \E ok \in BOOLEAN : WinHttpOpen(t, ok)
  \/ \E ok \in BOOLEAN : WinHttpConnect(t, ok)
  \/ \E ok \in BOOLEAN : WinHttpOpenRequest(t, ok)
  \/ \E ok \in BOOLEAN : WinHttpSendRequest(t, ok)
  \/ Blocked(t)
  \/ \E ok \in BOOLEAN : \E resp \in resps :
       WinHttpReceiveResponse(t, ok, resp)
  \/ \E ok \in BOOLEAN : \E avail \in 0..BufferGuard :
       WinHttpQueryDataAvailable(t, ok, avail)
  \/ \E ok \in BOOLEAN : WinHttpReadData(t, ok)
  \/ Cleanup(t)
  \/ StoreSignal(t)
  \/ HostRefresh(t)

\* The host evaluates formulas on one dedicated thread.
Next == RegisterTdxFunc \/ Tick \/ Step("T1", DataLens, Responses)

Spec == Init /\ [][Next]_vars

\* The host evaluates formulas on concurrent threads, each on a series of
\* one bar, the service up and well.
NextConc == RegisterTdxFunc \/ \E t \in Threads : Step(t, {0, 1}, Signals)

SpecConc == Init /\ [][NextConc]_vars

\* ------------------------------------------------------------ the claims
\* The WinHTTP steps that can fail.
WinHttpFailures ==
  {"session", "connect", "request", "send", "receive", "nodata", "read"}

\* The output slots of a series of n bars.
OutSlots(n) == {k \in Slots : k < n}

\* Thread t has a request with the service, not yet answered.
InFlight(t) == frame[t].pc = "receive"

\* The service answered f's request with a 2xx status.
Is2xx(status) == status >= 200 /\ status <= 299

\* The invocation before this one called the server for the same
\* (instrument, last price, last volume).
SameKeyAsPrev(f) ==
  /\ prev.made /\ prev.called /\ f.DataLen > 0
  /\ prev.lastPrice = f.lastPrice /\ prev.lastVol = f.lastVol

\* C1: in every invocation with DataLen = n >= 0, from the start of the
\* remote call until the return every slot 0..n-1 has been written and holds
\* 0.0, and after the return the slots below the last hold 0.0 and the last
\* holds the returned signal: no slot keeps what the host's buffer held.
C1_DefaultFilled ==
  \A t \in Threads :
    LET f == frame[t] IN
    (f.DataLen >= 0 /\ f.pc \notin {"idle", "init"}) =>
      \A k \in OutSlots(f.DataLen) :
        /\ k \in f.writes
        /\ f.pc # "done" => f.pfOUT[k] = Zero
        /\ f.pc = "done" =>
             f.pfOUT[k] = (IF k = f.DataLen - 1 THEN f.signal ELSE Zero)

C1_Witness ==
  \E t \in Threads : InFlight(t) /\ frame[t].DataLen >= 2

\* C2: when the service answers 200 with a body that is one number v and no
\* WinHTTP step fails, after the return the last slot holds v and every
\* slot before it 0.0.
C2_LastSlotIsParsedValue ==
  \A t \in Threads :
    LET f == frame[t] IN
    (/\ f.pc = "done" /\ f.DataLen > 0
     /\ f.failed \notin WinHttpFailures
     /\ f.response.status = 200 /\ WellFormed(f.response.body)) =>
      /\ f.pfOUT[f.DataLen - 1] = atof(f.response.body)
      /\ \A k \in OutSlots(f.DataLen - 1) : f.pfOUT[k] = Zero

\* C3: whichever WinHTTP step fails (session open, connect, request open,
\* send, receive, no data available, read), the invocation can always take
\* its next step until it has returned, and once it has returned every slot
\* 0..n-1, the last one included, holds 0.0.
C3_FailuresAbsorbed ==
  \A t \in Threads :
    LET f == frame[t] IN
    f.failed \in WinHttpFailures =>
      /\ f.pc # "done" => ENABLED Step(t, DataLens, Responses)
      /\ f.pc = "done" => \A k \in OutSlots(f.DataLen) : f.pfOUT[k] = Zero

C3_Witness ==
  \E t \in Threads :
    /\ frame[t].pc = "done" /\ frame[t].failed = "read"
    /\ frame[t].DataLen >= 2 /\ frame[t].response.body # <<>>

\* C4: an invocation with DataLen = 0 opens no session, sends no request,
\* holds no handle, reads no input element and writes no output slot, up to
\* and after its return.
C4_EmptyIsNoOp ==
  \A t \in Threads :
    LET f == frame[t] IN
    (f.pc # "idle" /\ f.DataLen = 0) =>
      /\ f.opens = 0 /\ f.sent = <<>> /\ f.reads = {} /\ f.writes = {}
      /\ f.pfOUT = IdleFrame.pfOUT
      /\ \A h \in handles : h.owner # t

C4_Witness ==
  \E t \in Threads : frame[t].pc = "done" /\ frame[t].DataLen = 0

\* C5: when the service answers with a non-2xx status, the last slot of that
\* invocation holds 0.0 after the return, whatever the body.
C5_Non2xxYieldsNoSignal ==
  \A t \in Threads :
    LET f == frame[t] IN
    (/\ f.pc = "done" /\ f.DataLen > 0
     /\ f.response # NoResponse /\ ~Is2xx(f.response.status)) =>
      f.pfOUT[f.DataLen - 1] = Zero

\* The invocation before this one sent its request and got a 2xx answer that
\* it read.
PrevSucceeded ==
  /\ prev.made /\ prev.called /\ prev.sends = 1
  /\ prev.failed = "none" /\ Is2xx(prev.status)

\* C6: of two successive invocations for the same key, the first answered by
\* the service and the second entered within the cache TTL of the first,
\* the second never sends a request: one request in total.
C6_SecondCallIsCacheHit ==
  \A t \in Threads :
    LET f == frame[t] IN
    (/\ f.pc \notin {"idle", "init", "if"} /\ SameKeyAsPrev(f)
     /\ PrevSucceeded /\ f.age <= cacheTtlMs) =>
      /\ f.sent = <<>>
      /\ prev.sends + Len(f.sent) = 1

\* C7: after an invocation whose remote call failed, a retry for the same
\* key within the failure cooldown sends no request and leaves 0.0 in the
\* last slot.
C7_RetryInCooldownSendsNothing ==
  \A t \in Threads :
    LET f == frame[t] IN
    (/\ f.pc \notin {"idle", "init", "if"} /\ SameKeyAsPrev(f)
     /\ f.age <= failureCooldownMs
     /\ (prev.failed \in WinHttpFailures
           \/ (prev.status # 0 /\ ~Is2xx(prev.status)))) =>
      /\ f.sent = <<>>
      /\ f.pc = "done" => f.pfOUT[f.DataLen - 1] = Zero

\* C8: no two concurrent invocations for the same key have a request in
\* flight at the same time (the first half of the claim; the second half,
\* that such callers all write the same value, presupposes it).
C8_OneInFlightPerKey ==
  \A t, u \in Threads :
    (/\ t # u /\ InFlight(t) /\ InFlight(u)
     /\ frame[t].lastPrice = frame[u].lastPrice
     /\ frame[t].lastVol = frame[u].lastVol) => FALSE

\* C9: a call of CallRoxServer in which a WinHTTP step failed and a call that
\* read the whole of a 200 answer "0.00" never return the same value.
C9_FailureIsNotZeroSignal ==
  \A t, u \in Threads :
    LET f == frame[t]
        g == frame[u]
    IN
    (/\ f.pc \in {"store", "done"} /\ f.DataLen > 0
     /\ f.failed \in WinHttpFailures
     /\ g.pc \in {"store", "done"} /\ g.DataLen > 0
     /\ g.failed = "none" /\ g.response.status = 200
     /\ WellFormed(g.response.body) /\ g.dwSize = Len(g.response.body)
     /\ atof(g.response.body) = Zero) =>
      f.signal # g.signal

\* C10: of two consecutive invocations whose remote calls both succeeded,
\* the second opens no session.
C10_SessionReused ==
  \A t \in Threads :
    LET f == frame[t] IN
    (/\ f.pc = "done" /\ f.DataLen > 0
     /\ PrevSucceeded
     /\ f.failed = "none" /\ Is2xx(f.response.status)) =>
      f.opens = 0


\* C11: no invocation is still waiting for the service's answer once the
\* time budget of the exchange has run out: the bridge's own timeout ends
\* the wait and the invocation returns.
C11_HardTimeout ==
  \A t \in Threads : frame[t].waited <= requestTimeoutMs

\* The elements of the sequence q.
Range(q) == {q[k] : k \in 1..Len(q)}

\* C12: an invocation with DataLen = n > 0 sends at most one request; the
\* request carries the placeholder "UNKNOWN" and the price and volume at
\* index n-1 (printed with two decimals), and no other input element is read.
C12_OnlyLastBar ==
  \A t \in Threads :
    LET f == frame[t] IN
    (f.pc # "idle" /\ f.DataLen > 0) =>
      /\ Len(f.sent) <= 1
      /\ \A p \in Range(f.sent) :
           p = [code |-> "UNKNOWN", price |-> Fmt2(f.pfINa[f.DataLen - 1]),
                vol |-> Fmt2(f.pfINb[f.DataLen - 1])]
      /\ f.reads \subseteq {<<"pfINa", f.DataLen - 1>>, <<"pfINb", f.DataLen - 1>>}

C12_Witness ==
  \E t \in Threads :
    /\ InFlight(t) /\ frame[t].DataLen = 2 /\ Len(frame[t].sent) = 1
    /\ frame[t].pfINa[0] # frame[t].pfINa[1]

\* C13: an invocation with a negative DataLen opens no session, sends no
\* request, holds no handle, reads no input element and writes no output
\* slot; it can always take its next step until it has returned.
C13_NegativeIsNoOp ==
  \A t \in Threads :
    LET f == frame[t] IN
    (f.pc # "idle" /\ f.DataLen < 0) =>
      /\ f.opens = 0 /\ f.sent = <<>> /\ f.reads = {} /\ f.writes = {}
      /\ f.pfOUT = IdleFrame.pfOUT
      /\ \A h \in handles : h.owner # t
      /\ f.pc # "done" => ENABLED Step(t, DataLens, Responses)

C13_Witness ==
  \E t \in Threads : frame[t].pc = "done" /\ frame[t].DataLen < 0

\* What the exchange of f alone makes of the signal: 0.0 when a WinHTTP step
\* failed or the body was not read, else the number its own answer's first
\* dwSize bytes parse to.
OwnSignal(f) ==
  IF f.failed # "none" THEN Zero
  ELSE atof(Prefix(f.response.body, f.dwSize))

\* C14: under concurrent invocations every handle a thread holds or closes
\* is its own and is open while it holds it, and the output of an invocation
\* is what its own inputs and the answer to its own request make it.
C14_NoSharedState ==
  \A t \in Threads :
    LET f == frame[t] IN
    /\ \A h \in {f.hSession, f.hConnect, f.hRequest} \ {NULL} :
         h.owner = t /\ h \in handles
    /\ \A h \in Range(f.closes) \cup Range(f.opened) : h.owner = t
    /\ \A p \in Range(f.sent) : p = Payload("UNKNOWN", f.lastPrice, f.lastVol)
    /\ (f.pc = "done" /\ f.DataLen > 0) =>
         \A k \in OutSlots(f.DataLen) :
           f.pfOUT[k] = (IF k = f.DataLen - 1 THEN OwnSignal(f) ELSE Zero)

C14_Witness ==
  /\ InFlight("T1") /\ frame["T2"].pc = "done"
  /\ frame["T2"].DataLen > 0
  /\ frame["T2"].pfOUT[0] = Dec(1, 0)
  /\ frame["T1"].lastPrice # frame["T2"].lastPrice

\* C15: the registration table always holds the entry (1, 0, RoxSignal)
\* followed by the terminator (0, 0, NULL), and every RegisterTdxFunc
\* returns TRUE and hands the host that table.
C15_TableImmutable ==
  /\ g_Funcs = <<[nFuncMark |-> 1, nCallType |-> 0, pCallFunc |-> "RoxSignal"],
                 [nFuncMark |-> 0, nCallType |-> 0, pCallFunc |-> "NULL"]>>
  /\ registered \in {NotRegistered, [ret |-> TRUE, pFun |-> "g_Funcs"]}

C15_Witness ==
  /\ registered = [ret |-> TRUE, pFun |-> "g_Funcs"]
  /\ \E t \in Threads : frame[t].pc = "done" /\ frame[t].DataLen > 0

\* C16: CallRoxServer closes only handles it opened, each at most once, and
\* once it has returned every handle it opened has been closed and none is
\* open.
C16_HandlesClosedOnce ==
  \A t \in Threads :
    LET f == frame[t] IN
    /\ Range(f.closes) \subseteq Range(f.opened)
    /\ Cardinality(Range(f.closes)) = Len(f.closes)
    /\ f.pc \in {"store", "done"} =>
         /\ Range(f.closes) = Range(f.opened)
         /\ \A h \in handles : h.owner # t

C16_Witness ==
  \E t \in Threads :
    /\ frame[t].pc = "done" /\ frame[t].failed = "request"
    /\ Len(frame[t].closes) = 2

\* C17: at the end of the exchange, WinHttpReadData was called (once) exactly
\* when between 1 and 62 bytes were reported available; when it was not
\* called the result is 0.0, and when it was the result is the number parsed
\* from exactly the bytes that read downloaded.
C17_ReadOnce ==
  \A t \in Threads :
    LET f == frame[t] IN
    f.pc = "cleanup" =>
      /\ f.dataRead = (IF f.dwSize >= 1 /\ f.dwSize <= 62 THEN 1 ELSE 0)
      /\ f.dataRead = 0 => (f.result = Zero /\ f.buffer = <<>>)
      /\ f.dataRead = 1 =>
           /\ f.dwDownloaded \in {0, f.dwSize}
           /\ f.buffer = SubSeq(f.response.body, 1, f.dwDownloaded)
           /\ f.result = atof(f.buffer)

C17_Witness ==
  \E t \in Threads :
    /\ frame[t].pc = "cleanup" /\ frame[t].dataRead = 1
    /\ frame[t].dwSize = 62 /\ frame[t].dwDownloaded = 62

\* What an invocation may read and write: element DataLen-1 of the first
\* two inputs, and the output slots 0..DataLen-1.
WithinFrame(f) ==
  /\ f.reads \subseteq {<<"pfINa", f.DataLen - 1>>, <<"pfINb", f.DataLen - 1>>}
  /\ \A k \in f.writes : k >= 0 /\ k < f.DataLen

\* C18: an invocation reads only element DataLen-1 of the first and second
\* input arrays, never touches the third, writes only the output slots
\* 0..DataLen-1, no step of it changes an input array, and nothing of the
\* invocation is left once it is over.
C18_InputsUntouched ==
  /\ [](\A t \in Threads :
          /\ WithinFrame(frame[t])
          /\ frame[t].pc = "idle" => frame[t] = IdleFrame)
  /\ [][\A t \in Threads :
          (frame[t].pc # "idle" /\ frame'[t].pc # "idle") =>
            /\ frame'[t].pfINa = frame[t].pfINa
            /\ frame'[t].pfINb = frame[t].pfINb
            /\ frame'[t].pfINc = frame[t].pfINc]_vars

C18_Witness ==
  \E t \in Threads :
    /\ frame[t].pc = "done" /\ frame[t].DataLen = 2
    /\ frame[t].writes = {0, 1} /\ Cardinality(frame[t].reads) = 2
=============================================================================
